---- MODULE Spec2Model ----
(***************************************************************************)
(* Model of the Jira issue analyzer:                                       *)
(*   - the turn runner call_agent_async                                    *)
(*     (src/agents/specialists/jira_analyzer/issue_analyzer_agent.py)      *)
(*   - the Jira client JiraClient (src/infrastructure/jira/client.py):     *)
(*     connectivity check, query construction, search, normalisation.      *)
(*                                                                         *)
(* Python values are tagged records: None is [t |-> "None"], a str is      *)
(* [t |-> "str", s |-> ...], a dict is [t |-> "dict", d |-> function from  *)
(* the present keys to values], a list is [t |-> "list", items |-> <<>>].  *)
(* Text whose characters the code inspects (query strings, filter values,  *)
(* dates) is a sequence of one-character strings; other text is a string.  *)
(***************************************************************************)
EXTENDS Naturals, Integers, Sequences, FiniteSets, TLC

VARIABLES
    \* ---- turn runner (call_agent_async) ----
    pc,                   \* "idle" | "streaming" | "finished" | "done"
    final_response_text,  \* the local variable of call_agent_async
    streamLen,            \* number of events the engine's finite stream holds
    consumed,             \* number of events the async-for loop has taken
    firstFinal,           \* history: the first consumed event marked final
    firstFinalAt,         \* history: its position in the stream (1-based)
    stdout,               \* the last line printed by call_agent_async
    \* ---- Jira client ----
    call,                 \* the last client operation and its arguments
    jql,                  \* the query string handed to _search_issues
    result,               \* what the operation returned, or the exception raised
    printed               \* diagnostics printed by the operation

runnerVars == <<pc, final_response_text, streamLen, consumed, firstFinal,
                firstFinalAt, stdout>>
clientVars == <<call, jql, result, printed>>
vars == <<pc, final_response_text, streamLen, consumed, firstFinal,
          firstFinalAt, stdout, call, jql, result, printed>>

\* ------------------------------------------------------------------------
\* Python values
\* ------------------------------------------------------------------------
PyNone == [t |-> "None"]
PyStr(s) == [t |-> "str", s |-> s]
PyDict(f) == [t |-> "dict", d |-> f]
PyList(xs) == [t |-> "list", items |-> xs]
PyBool(b) == [t |-> "bool", b |-> b]
PyInt(n) == [t |-> "int", n |-> n]
EmptyDict == PyDict([k \in {} |-> PyNone])

IsNone(v) == v.t = "None"

\* Python truthiness of the values the code tests with `if x` / `x and y` / `x or y`.
Truthy(v) ==
    CASE v.t = "None" -> FALSE
      [] v.t = "str"  -> Len(v.s) > 0
      [] v.t = "dict" -> DOMAIN v.d # {}
      [] v.t = "list" -> Len(v.items) > 0
      [] v.t = "bool" -> v.b
      [] v.t = "int"  -> v.n # 0
      [] OTHER        -> TRUE

\* str(x) as an f-string renders it.
PyFormat(v) == IF v.t = "None" THEN "None" ELSE v.s

\* ------------------------------------------------------------------------
\* Character strings (sequences of one-character strings)
\* ------------------------------------------------------------------------
RECURSIVE Join(_, _)
\* sep.join(xs) for a sequence xs of character strings
Join(sep, xs) ==
    IF Len(xs) = 0 THEN <<>>
    ELSE IF Len(xs) = 1 THEN xs[1]
    ELSE xs[1] \o sep \o Join(sep, Tail(xs))

Digits == <<"0", "1", "2", "3", "4", "5", "6", "7", "8", "9">>

RECURSIVE NatToChars(_)
\* str(n) for n >= 0
NatToChars(n) ==
    IF n < 10 THEN <<Digits[n + 1]>>
    ELSE NatToChars(n \div 10) \o <<Digits[(n % 10) + 1]>>

\* f"{n}" for an int
IntToChars(n) == IF n < 0 THEN <<"-">> \o NatToChars(0 - n) ELSE NatToChars(n)

\* ------------------------------------------------------------------------
\* JiraClient: query construction
\* ------------------------------------------------------------------------
\* "assignee = currentUser()"
AssigneeIsCurrentUser ==
    <<"a","s","s","i","g","n","e","e"," ","="," ","c","u","r","r","e","n",
      "t","U","s","e","r","(",")">>
\* "reporter = currentUser()"
ReporterIsCurrentUser ==
    <<"r","e","p","o","r","t","e","r"," ","="," ","c","u","r","r","e","n",
      "t","U","s","e","r","(",")">>
\* "status IN ('"
StatusInOpen ==
    <<"s","t","a","t","u","s"," ","I","N"," ","(","'">>
\* "project IN ('"
ProjectInOpen ==
    <<"p","r","o","j","e","c","t"," ","I","N"," ","(","'">>
\* "', '"
ValueSeparator ==
    <<"'",","," ","'">>
\* "')"
InClose ==
    <<"'",")">>
\* " AND "
AndSeparator ==
    <<" ","A","N","D"," ">>
\* " OR "
OrSeparator ==
    <<" ","O","R"," ">>
\* " ORDER BY created DESC"
OrderByCreated ==
    <<" ","O","R","D","E","R"," ","B","Y"," ","c","r","e","a","t","e","d",
      " ","D","E","S","C">>
\* "(assignee = currentUser() OR reporter = currentUser()) AND updated >= -"
RecentActivityHead ==
    <<"(","a","s","s","i","g","n","e","e"," ","="," ","c","u","r","r","e",
      "n","t","U","s","e","r","(",")"," ","O","R"," ","r","e","p","o","r",
      "t","e","r"," ","="," ","c","u","r","r","e","n","t","U","s","e","r",
      "(",")",")"," ","A","N","D"," ","u","p","d","a","t","e","d"," ",">",
      "="," ","-">>
\* "d ORDER BY updated DESC"
RecentActivityTail ==
    <<"d"," ","O","R","D","E","R"," ","B","Y"," ","u","p","d","a","t","e",
      "d"," ","D","E","S","C">>

\* status_list = "', '".join(status_filter); f"status IN ('{status_list}')"
StatusClause(status_filter) ==
    StatusInOpen \o Join(ValueSeparator, status_filter.items) \o InClose

\* project_list = "', '".join(project_keys); f"project IN ('{project_list}')"
ProjectClause(project_keys) ==
    ProjectInOpen \o Join(ValueSeparator, project_keys.items) \o InClose

\* Faulty variant of JoinParts: the clauses are joined with " OR ".
JoinPartsWithOr(jql_parts) == Join(OrSeparator, jql_parts)

\* jql = " AND ".join(jql_parts)
JoinParts(jql_parts) == Join(AndSeparator, jql_parts)

\* get_my_issues, lines 85-96: the query string it builds
MyIssuesJql(status_filter, project_keys) ==
    LET jql_parts ==
            <<AssigneeIsCurrentUser>>
            \o (IF Truthy(status_filter) THEN <<StatusClause(status_filter)>>
                                         ELSE <<>>)
            \o (IF Truthy(project_keys) THEN <<ProjectClause(project_keys)>>
                                        ELSE <<>>)
    IN JoinParts(jql_parts) \o OrderByCreated

\* get_reported_by_me, lines 113-120: the query string it builds
ReportedByMeJql(status_filter) ==
    LET jql_parts ==
            <<ReporterIsCurrentUser>>
            \o (IF Truthy(status_filter) THEN <<StatusClause(status_filter)>>
                                         ELSE <<>>)
    IN JoinParts(jql_parts) \o OrderByCreated

\* get_recent_activity, line 135: the query string it builds
RecentActivityJql(days) ==
    RecentActivityHead \o IntToChars(days) \o RecentActivityTail

\* ------------------------------------------------------------------------
\* JiraClient._format_date
\* ------------------------------------------------------------------------
RECURSIVE Replace(_, _, _)
\* s.replace(old, new) for a one-character old
Replace(s, old, new) ==
    IF Len(s) = 0 THEN <<>>
    ELSE (IF s[1] = old THEN new ELSE <<s[1]>>) \o Replace(Tail(s), old, new)

IsDigit(c) == \E i \in 1..10 : Digits[i] = c
DigitVal(c) == (CHOOSE i \in 1..10 : Digits[i] = c) - 1
AllDigits(s) == \A i \in 1..Len(s) : IsDigit(s[i])

RECURSIVE Number(_)
\* int(s) for a non-empty sequence of digits
Number(s) ==
    IF Len(s) = 1 THEN DigitVal(s[1])
    ELSE 10 * Number(SubSeq(s, 1, Len(s) - 1)) + DigitVal(s[Len(s)])

IsLeap(y) == (y % 4 = 0 /\ y % 100 # 0) \/ y % 400 = 0
DaysInMonth(y, m) ==
    IF m = 2 THEN (IF IsLeap(y) THEN 29 ELSE 28)
    ELSE IF m \in {4, 6, 9, 11} THEN 30 ELSE 31

\* datetime.fromisoformat accepts d = "YYYY-MM-DD" naming a real calendar day
DateOk(d) ==
    /\ Len(d) = 10
    /\ AllDigits(SubSeq(d, 1, 4)) /\ d[5] = "-"
    /\ AllDigits(SubSeq(d, 6, 7)) /\ d[8] = "-"
    /\ AllDigits(SubSeq(d, 9, 10))
    /\ LET y == Number(SubSeq(d, 1, 4))
           m == Number(SubSeq(d, 6, 7))
           dd == Number(SubSeq(d, 9, 10))
       IN /\ y >= 1
          /\ m \in 1..12
          /\ dd >= 1 /\ dd <= DaysInMonth(y, m)

TwoDigitsBelow(s, limit) ==
    /\ Len(s) = 2
    /\ AllDigits(s)
    /\ Number(s) < limit

\* "HH", "HH:MM", "HH:MM:SS", "HH:MM:SS.fff" or "HH:MM:SS.ffffff"
ClockOk(c) ==
    /\ Len(c) \in {2, 5, 8, 12, 15}
    /\ TwoDigitsBelow(SubSeq(c, 1, 2), 24)
    /\ Len(c) >= 5 => c[3] = ":" /\ TwoDigitsBelow(SubSeq(c, 4, 5), 60)
    /\ Len(c) >= 8 => c[6] = ":" /\ TwoDigitsBelow(SubSeq(c, 7, 8), 60)
    /\ Len(c) >= 12 => c[9] = "." /\ AllDigits(SubSeq(c, 10, Len(c)))

\* "+HH:MM" or "-HH:MM"
OffsetOk(o) ==
    /\ Len(o) = 6
    /\ o[1] \in {"+", "-"}
    /\ TwoDigitsBelow(SubSeq(o, 2, 3), 24)
    /\ o[4] = ":"
    /\ TwoDigitsBelow(SubSeq(o, 5, 6), 60)

\* the time part of an ISO string: a clock, then an optional UTC offset
TimeOk(t) ==
    IF Len(t) >= 8 /\ t[Len(t) - 5] \in {"+", "-"}
    THEN /\ ClockOk(SubSeq(t, 1, Len(t) - 6))
         /\ OffsetOk(SubSeq(t, Len(t) - 5, Len(t)))
    ELSE ClockOk(t)

\* datetime.fromisoformat(s) succeeds: a date, alone or followed by one
\* separator character and a time.  (The forms every supported Python accepts;
\* inputs on which Python versions differ, such as an offset written +0900,
\* are not drawn.)
IsoOk(s) ==
    /\ Len(s) >= 10
    /\ DateOk(SubSeq(s, 1, 10))
    /\ Len(s) > 10 => Len(s) >= 13 /\ TimeOk(SubSeq(s, 12, Len(s)))

\* dt.strftime("%Y-%m-%d %H:%M") of the parsed value (years of four digits)
Strftime(s) ==
    SubSeq(s, 1, 10) \o <<" ">> \o
    (IF Len(s) = 10 THEN <<"0", "0", ":", "0", "0">>
     ELSE IF Len(s) < 16 \/ s[14] # ":" THEN SubSeq(s, 12, 13) \o <<":", "0", "0">>
     ELSE SubSeq(s, 12, 16))

\* Faulty variant of _format_date: `except Exception` returns "" where the
\* code returns date_str.
format_date_empty_on_error(date_str) ==
    IF ~Truthy(date_str) THEN PyStr(<<>>)
    ELSE IF date_str.t # "str" THEN PyStr(<<>>)
    ELSE LET s == Replace(date_str.s, "Z", <<"+", "0", "0", ":", "0", "0">>)
         IN IF IsoOk(s) THEN PyStr(Strftime(s)) ELSE PyStr(<<>>)

\* _format_date(date_str): the value returned (it raises nothing: the parse
\* and the call of .replace are both inside `try ... except Exception`)
_format_date(date_str) ==
    IF ~Truthy(date_str) THEN PyStr(<<>>)
    ELSE IF date_str.t # "str" THEN date_str
    ELSE LET s == Replace(date_str.s, "Z", <<"+", "0", "0", ":", "0", "0">>)
         IN IF IsoOk(s) THEN PyStr(Strftime(s)) ELSE date_str

\* ------------------------------------------------------------------------
\* JiraClient: normalisation
\* ------------------------------------------------------------------------
\* The outcome of evaluating a Python expression or call.
Returned(v) == [t |-> "return", v |-> v]
Raised(exc) == [t |-> "raise", exc |-> exc]

\* d.get(k, default) for a dict d
GetOr(d, k, default) == IF k \in DOMAIN d.d THEN d.d[k] ELSE default

\* self.server_url = server_url.rstrip("/")
ServerUrl == "https://yourcompany.atlassian.net"

\* The sentinels of _get_user_display_name: U+672A U+8A2D U+5B9A ("not set")
\* and U+4E0D U+660E ("unknown"), written here in ASCII.
UNSET == "unset"
UNKNOWN == "unknown"

\* _get_user_display_name(user_data)
_get_user_display_name(user_data) ==
    IF ~Truthy(user_data) THEN Returned(PyStr(UNSET))
    ELSE IF user_data.t # "dict" THEN Raised("AttributeError")
    ELSE Returned(GetOr(user_data, "displayName",
                        GetOr(user_data, "emailAddress", PyStr(UNKNOWN))))

\* fields.get(k, {}).get("name")
NestedName(fields, k) ==
    LET nested == GetOr(fields, k, EmptyDict)
    IN IF nested.t # "dict" THEN Raised("AttributeError")
       ELSE Returned(GetOr(nested, "name", PyNone))

\* The body of the loop of _format_issues: the formatted issue, or the
\* exception that evaluating the dict display raises.
FormatIssue(issue) ==
    IF issue.t # "dict" THEN Raised("AttributeError")
    ELSE
    LET fields == GetOr(issue, "fields", EmptyDict) IN
    IF fields.t # "dict" THEN Raised("AttributeError")
    ELSE
    LET status == NestedName(fields, "status")
        priority == NestedName(fields, "priority")
        assignee == _get_user_display_name(GetOr(fields, "assignee", PyNone))
        reporter == _get_user_display_name(GetOr(fields, "reporter", PyNone))
        project == NestedName(fields, "project")
        issue_type == NestedName(fields, "issuetype")
        evaluated == <<status, priority, assignee, reporter, project, issue_type>>
    IN IF \E i \in 1..Len(evaluated) : evaluated[i].t = "raise"
       THEN Raised("AttributeError")
       ELSE Returned(
           [key |-> GetOr(issue, "key", PyNone),
            summary |-> GetOr(fields, "summary", PyNone),
            status |-> status.v,
            priority |-> priority.v,
            assignee |-> assignee.v,
            reporter |-> reporter.v,
            project |-> project.v,
            issue_type |-> issue_type.v,
            created |-> _format_date(GetOr(fields, "created", PyNone)),
            updated |-> _format_date(GetOr(fields, "updated", PyNone)),
            due_date |-> _format_date(GetOr(fields, "duedate", PyNone)),
            url |-> ServerUrl \o "/browse/" \o PyFormat(GetOr(issue, "key", PyNone))])

RECURSIVE FormatAll(_)
\* for issue in issues: ... formatted_issues.append(formatted_issue)
FormatAll(items) ==
    IF Len(items) = 0 THEN Returned(PyList(<<>>))
    ELSE LET first == FormatIssue(items[1]) IN
         IF first.t = "raise" THEN first
         ELSE LET rest == FormatAll(Tail(items)) IN
              IF rest.t = "raise" THEN rest
              ELSE Returned(PyList(<<first.v>> \o rest.v.items))

\* _format_issues(issues)
_format_issues(issues) ==
    CASE issues.t = "list" -> FormatAll(issues.items)
      [] issues.t = "dict" -> IF DOMAIN issues.d = {} THEN Returned(PyList(<<>>))
                              ELSE Raised("AttributeError")
      [] OTHER -> Raised("TypeError")

\* ------------------------------------------------------------------------
\* JiraClient: requests
\* ------------------------------------------------------------------------
\* What the HTTP session gives back: an exception of the transport
\* (requests.ConnectionError, requests.Timeout: both RequestException), or a
\* response with a status code and a body.
TransportError == [kind |-> "exception", exc |-> "ConnectionError"]
HttpResponse(status, body) == [kind |-> "http", status |-> status, body |-> body]

\* A body that is not JSON.  response.json() then raises
\* requests.JSONDecodeError, a RequestException, with requests >= 2.27 and a
\* plain ValueError with older releases: the installed release decides.
NotJson(as_request_exception) ==
    [t |-> "not_json", as_request_exception |-> as_request_exception]

\* response.raise_for_status() raises HTTPError
IsErrorStatus(status) == status >= 400 /\ status < 600

ApiRequestError == [msg |-> "api_request_error"]

\* _search_issues(jql, max_results), given what the POST produces:
\* [outcome |-> returned value or raised exception, printed |-> diagnostics]
_search_issues(response) ==
    IF response.kind = "exception"
    THEN [outcome |-> Returned(PyList(<<>>)), printed |-> <<ApiRequestError>>]
    ELSE IF IsErrorStatus(response.status)
    THEN [outcome |-> Returned(PyList(<<>>)), printed |-> <<ApiRequestError>>]
    ELSE IF response.body.t = "not_json"
    THEN (IF response.body.as_request_exception
          THEN [outcome |-> Returned(PyList(<<>>)), printed |-> <<ApiRequestError>>]
          ELSE [outcome |-> Raised("JSONDecodeError"), printed |-> <<>>])
    ELSE IF response.body.t # "dict"
    THEN [outcome |-> Raised("AttributeError"), printed |-> <<>>]
    ELSE [outcome |-> _format_issues(GetOr(response.body, "issues", PyList(<<>>))),
          printed |-> <<>>]

\* The lines test_connection prints.
ConnStatusLine(status) == [msg |-> "status_code", code |-> status]
ConnAuthError == [msg |-> "auth_error"]
ConnBadUrl == [msg |-> "bad_url"]
ConnFailed(status) == [msg |-> "connection_failed", code |-> status]
ConnSucceeded == [msg |-> "connection_succeeded"]
ConnException == [msg |-> "connection_error"]

\* Faulty variant of test_connection: the 404 branch is missing.
test_connection_no_404(response) ==
    IF response.kind = "exception"
    THEN [outcome |-> Returned(PyBool(FALSE)), printed |-> <<ConnException>>]
    ELSE IF response.status = 401
    THEN [outcome |-> Returned(PyBool(FALSE)),
          printed |-> <<ConnStatusLine(response.status), ConnAuthError>>]
    ELSE IF response.status # 200
    THEN [outcome |-> Returned(PyBool(FALSE)),
          printed |-> <<ConnStatusLine(response.status), ConnFailed(response.status)>>]
    ELSE [outcome |-> Returned(PyBool(response.status = 200)),
          printed |-> <<ConnStatusLine(response.status), ConnSucceeded>>]

\* test_connection(), given what the GET produces
test_connection(response) ==
    IF response.kind = "exception"
    THEN [outcome |-> Returned(PyBool(FALSE)), printed |-> <<ConnException>>]
    ELSE IF response.status = 401
    THEN [outcome |-> Returned(PyBool(FALSE)),
          printed |-> <<ConnStatusLine(response.status), ConnAuthError>>]
    ELSE IF response.status = 404
    THEN [outcome |-> Returned(PyBool(FALSE)),
          printed |-> <<ConnStatusLine(response.status), ConnBadUrl>>]
    ELSE IF response.status # 200
    THEN [outcome |-> Returned(PyBool(FALSE)),
          printed |-> <<ConnStatusLine(response.status), ConnFailed(response.status)>>]
    ELSE [outcome |-> Returned(PyBool(response.status = 200)),
          printed |-> <<ConnStatusLine(response.status), ConnSucceeded>>]

\* ------------------------------------------------------------------------
\* Inputs of the client operations
\* ------------------------------------------------------------------------
MaxFilter == 2
MaxIssues == 2

\* All sequences over S of length at most n
SeqsUpTo(S, n) == UNION {[1..k -> S] : k \in 0..n}

ToDo == <<"T", "o", " ", "D", "o">>
InProgress == <<"I", "n", " ", "P", "r", "o", "g", "r", "e", "s", "s">>
OBrien == <<"W", "o", "n", "'", "t", " ", "D", "o">>
StatusValues == {ToDo, InProgress, OBrien}
ProjectValues == {<<"P", "R", "O", "J", "1">>, <<"R", "'", "D">>}

StatusFilters == {PyNone} \cup {PyList(xs) : xs \in SeqsUpTo(StatusValues, MaxFilter)}
ProjectFilters == {PyNone} \cup {PyList(xs) : xs \in SeqsUpTo(ProjectValues, MaxFilter)}
DaysValues == {1, 7, 30}

\* max_results: int = 50
DefaultMaxResults == 50

Named(name) == PyDict("name" :> PyStr(name))
Created == PyStr(<<"2", "0", "2", "4", "-", "0", "3", "-", "0", "5", "T", "1", "4", ":", "0", "7", ":", "5", "9", ".", "1", "2", "3", "Z">>)
Updated == PyStr(<<"2", "0", "2", "4", "-", "0", "3", "-", "0", "6", "T", "0", "9", ":", "3", "0", ":", "0", "0", "Z">>)
DueDate == PyStr(<<"2", "0", "2", "4", "-", "0", "3", "-", "3", "1">>)

\* The fields of a complete raw issue, as the search endpoint returns them.
FullFields ==
    "summary" :> PyStr("Fix login")
    @@ "status" :> Named("Open")
    @@ "priority" :> Named("High")
    @@ "assignee" :> PyDict("displayName" :> PyStr("Alice")
                            @@ "emailAddress" :> PyStr("alice@example.com"))
    @@ "reporter" :> PyDict("emailAddress" :> PyStr("bob@example.com"))
    @@ "project" :> Named("Website")
    @@ "issuetype" :> Named("Bug")
    @@ "created" :> Created
    @@ "updated" :> Updated
    @@ "duedate" :> DueDate

Without(f, keys) == [k \in (DOMAIN f) \ keys |-> f[k]]
With(f, k, v) == [x \in (DOMAIN f) \cup {k} |-> IF x = k THEN v ELSE f[x]]
RawIssue(fields) == PyDict("key" :> PyStr("PROJ-1") @@ "fields" :> PyDict(fields))

\* Raw records with fields missing
RecordsWithMissing ==
    {RawIssue(Without(FullFields, keys)) :
         keys \in SUBSET {"status", "assignee", "created"}}
    \cup {RawIssue(Without(FullFields, DOMAIN FullFields)),
          PyDict("key" :> PyStr("PROJ-1")),
          PyDict("fields" :> PyDict(FullFields))}

\* Raw records with a field present but without nested structure
RecordsWithoutStructure ==
    {RawIssue(With(FullFields, "assignee", EmptyDict)),
     RawIssue(With(FullFields, "assignee", PyNone)),
     RawIssue(With(FullFields, "priority", EmptyDict)),
     RawIssue(With(FullFields, "status", PyNone)),
     RawIssue(With(FullFields, "duedate", PyNone)),
     PyDict("key" :> PyStr("PROJ-1") @@ "fields" :> PyNone)}

RawRecords == RecordsWithMissing \cup RecordsWithoutStructure
IssueLists == {PyList(xs) : xs \in SeqsUpTo(RawRecords, MaxIssues)}

\* The records the search responses carry
SearchRecords ==
    {RawIssue(Without(FullFields, {"status", "assignee", "duedate"})),
     RawIssue(With(FullFields, "priority", PyNone))}

SearchBodies ==
    {NotJson(TRUE), NotJson(FALSE), PyList(<<>>),
     PyDict("total" :> PyInt(0)),
     PyDict("issues" :> PyNone)}
    \cup {PyDict("issues" :> PyList(xs)) : xs \in SeqsUpTo(SearchRecords, MaxIssues)}

SearchResponses ==
    {TransportError}
    \cup {HttpResponse(s, PyNone) : s \in {400, 401, 404, 500}}
    \cup {HttpResponse(200, b) : b \in SearchBodies}

ConnResponses ==
    {TransportError}
    \cup {HttpResponse(s, PyNone) : s \in {200, 401, 403, 404, 500, 503}}

UserInputs ==
    {PyNone, EmptyDict,
     PyDict("displayName" :> PyStr("Alice")),
     PyDict("emailAddress" :> PyStr("alice@example.com")),
     PyDict("displayName" :> PyStr("Alice")
            @@ "emailAddress" :> PyStr("alice@example.com")),
     PyDict("accountId" :> PyStr("5b10a2844c20165700ede21g")),
     PyStr("Alice")}

ValidZDates ==
    {<<"2", "0", "2", "4", "-", "0", "3", "-", "0", "5", "T", "1", "4", ":", "0", "7", ":", "5", "9", "Z">>,
     <<"2", "0", "2", "4", "-", "0", "3", "-", "0", "5", "T", "1", "4", ":", "0", "7", ":", "5", "9", ".", "1", "2", "3", "Z">>,
     <<"2", "0", "2", "4", "-", "0", "2", "-", "2", "9", "T", "2", "3", ":", "5", "9", ":", "0", "0", "Z">>,
     <<"1", "9", "9", "9", "-", "1", "2", "-", "3", "1", "T", "0", "0", ":", "0", "0", "Z">>}
UnparseableDates ==
    {<<"t", "o", "m", "o", "r", "r", "o", "w">>,
     <<"2", "0", "2", "3", "-", "0", "2", "-", "2", "9", "T", "1", "0", ":", "0", "0", ":", "0", "0", "Z">>,
     <<"2", "0", "2", "4", "-", "1", "3", "-", "0", "1", "T", "0", "0", ":", "0", "0", ":", "0", "0", "Z">>,
     <<"2", "0", "2", "4", "-", "0", "3", "-", "0", "5", "T", "2", "5", ":", "0", "0", ":", "0", "0", "Z">>,
     <<"0", "5", "/", "0", "3", "/", "2", "0", "2", "4">>}
DateInputs ==
    {PyNone, PyStr(<<>>), PyInt(0), PyInt(20240305), DueDate}
    \cup {PyStr(d) : d \in ValidZDates \cup UnparseableDates}

\* ------------------------------------------------------------------------
\* Client operations
\* ------------------------------------------------------------------------
Idle == call.op = "none"

\* client.test_connection()
TestConnection ==
    /\ Idle
    /\ \E response \in ConnResponses :
        LET r == test_connection(response) IN
        /\ call' = [op |-> "test_connection", response |-> response]
        /\ jql' = <<>>
        /\ result' = r.outcome
        /\ printed' = r.printed
    /\ UNCHANGED runnerVars

\* client.get_my_issues(status_filter, project_keys)
GetMyIssues ==
    /\ Idle
    /\ \E status_filter \in StatusFilters, project_keys \in ProjectFilters,
          response \in SearchResponses :
        LET r == _search_issues(response) IN
        /\ call' = [op |-> "get_my_issues", status_filter |-> status_filter,
                    project_keys |-> project_keys,
                    max_results |-> DefaultMaxResults, response |-> response]
        /\ jql' = MyIssuesJql(status_filter, project_keys)
        /\ result' = r.outcome
        /\ printed' = r.printed
    /\ UNCHANGED runnerVars

\* client.get_reported_by_me(status_filter)
GetReportedByMe ==
    /\ Idle
    /\ \E status_filter \in StatusFilters, response \in SearchResponses :
        LET r == _search_issues(response) IN
        /\ call' = [op |-> "get_reported_by_me", status_filter |-> status_filter,
                    max_results |-> DefaultMaxResults, response |-> response]
        /\ jql' = ReportedByMeJql(status_filter)
        /\ result' = r.outcome
        /\ printed' = r.printed
    /\ UNCHANGED runnerVars

\* client.get_recent_activity(days)
GetRecentActivity ==
    /\ Idle
    /\ \E days \in DaysValues, response \in SearchResponses :
        LET r == _search_issues(response) IN
        /\ call' = [op |-> "get_recent_activity", days |-> days,
                    max_results |-> DefaultMaxResults, response |-> response]
        /\ jql' = RecentActivityJql(days)
        /\ result' = r.outcome
        /\ printed' = r.printed
    /\ UNCHANGED runnerVars

\* client._format_issues(issues)
FormatIssues ==
    /\ Idle
    /\ \E issues \in IssueLists :
        /\ call' = [op |-> "_format_issues", issues |-> issues]
        /\ result' = _format_issues(issues)
    /\ jql' = <<>>
    /\ printed' = <<>>
    /\ UNCHANGED runnerVars

\* client._get_user_display_name(user_data)
GetUserDisplayName ==
    /\ Idle
    /\ \E user_data \in UserInputs :
        /\ call' = [op |-> "_get_user_display_name", user_data |-> user_data]
        /\ result' = _get_user_display_name(user_data)
    /\ jql' = <<>>
    /\ printed' = <<>>
    /\ UNCHANGED runnerVars

\* client._format_date(date_str)
FormatDate ==
    /\ Idle
    /\ \E date_str \in DateInputs :
        /\ call' = [op |-> "_format_date", date_str |-> date_str]
        /\ result' = Returned(_format_date(date_str))
    /\ jql' = <<>>
    /\ printed' = <<>>
    /\ UNCHANGED runnerVars

\* The caller takes the outcome and goes on to its next request (the menu
\* loop of main): the client is idle again.
NextChoice ==
    /\ ~Idle
    /\ call' = [op |-> "none"]
    /\ jql' = <<>>
    /\ result' = PyNone
    /\ printed' = <<>>
    /\ UNCHANGED runnerVars

\* ------------------------------------------------------------------------
\* Turn runner: call_agent_async
\* ------------------------------------------------------------------------
MaxEvents == 3

NoEvent == [t |-> "NoEvent"]

\* A Content object: parts is None or a list of Parts, each Part reduced to its
\* text attribute (None for a part that carries no text).
Content(parts) == [t |-> "Content", parts |-> parts]
Actions(escalate) == [t |-> "Actions", escalate |-> escalate]

PartTexts == {PyStr("A"), PyStr("B"), PyNone}
ContentValues ==
    {PyNone, Content(PyNone), Content(PyList(<<>>))}
    \cup {Content(PyList(<<p>>)) : p \in PartTexts}
    \cup {Content(PyList(<<PyStr("B"), PyStr("A")>>))}
ActionsValues == {PyNone, Actions(PyBool(FALSE)), Actions(PyBool(TRUE))}
ErrorMessages == {PyNone, PyStr(""), PyStr("boom")}

Events ==
    [t : {"Event"}, final : BOOLEAN, content : ContentValues,
     actions : ActionsValues, error_message : ErrorMessages]

\* Faulty variant of DefaultResponse: the default is left empty.
DefaultResponseMissing == PyStr("")

\* final_response_text = "Agent did not produce a final response."  # Default
DefaultResponse == PyStr("Agent did not produce a final response.")

\* event.content and event.content.parts
HasContentParts(e) ==
    /\ Truthy(e.content)
    /\ Truthy(e.content.parts)

\* event.actions and event.actions.escalate
IsEscalation(e) ==
    /\ Truthy(e.actions)
    /\ Truthy(e.actions.escalate)

\* f"Agent escalated: {event.error_message or 'No specific message.'}"
EscalationText(e) ==
    PyStr("Agent escalated: " \o
          (IF Truthy(e.error_message) THEN PyFormat(e.error_message)
                                      ELSE "No specific message."))

\* The body of `if event.is_final_response():` up to the break: the new value
\* of final_response_text given its current value.
FinalResponseText(e, current) ==
    IF HasContentParts(e) THEN e.content.parts.items[1]
    ELSE IF IsEscalation(e) THEN EscalationText(e)
    ELSE current

\* Faulty variant of AfterFinalEvent: the break is missing, the loop goes on.
NoBreak == "streaming"

\* break  # Stop processing events once the final response is found: the
\* position of call_agent_async after a final event
AfterFinalEvent == "finished"

\* f"<<< Agent Response: {final_response_text}"
ResponseLine(text) == "<<< Agent Response: " \o PyFormat(text)

\* Entry of call_agent_async up to the start of the loop.  The engine's event
\* stream is finite: its length n is fixed when the turn is dispatched.
CallAgent(n) ==
    /\ pc \in {"idle", "done"}
    /\ pc' = "streaming"
    /\ final_response_text' = DefaultResponse
    /\ streamLen' = n
    /\ consumed' = 0
    /\ firstFinal' = NoEvent
    /\ firstFinalAt' = 0
    /\ stdout' = ">>> User Query"
    /\ UNCHANGED clientVars

\* One iteration of `async for event in runner.run_async(...)`.
ConsumeEvent(e) ==
    /\ pc = "streaming"
    /\ consumed < streamLen
    /\ consumed' = consumed + 1
    /\ IF e.final
       THEN /\ final_response_text' = FinalResponseText(e, final_response_text)
            /\ pc' = AfterFinalEvent
            /\ firstFinal' = IF firstFinal = NoEvent THEN e ELSE firstFinal
            /\ firstFinalAt' = IF firstFinal = NoEvent THEN consumed + 1
                                                       ELSE firstFinalAt
       ELSE UNCHANGED <<final_response_text, pc, firstFinal, firstFinalAt>>
    /\ UNCHANGED <<streamLen, stdout>>
    /\ UNCHANGED clientVars

\* The stream raises StopAsyncIteration: the loop ends without a break.
StreamExhausted ==
    /\ pc = "streaming"
    /\ consumed = streamLen
    /\ pc' = "finished"
    /\ UNCHANGED <<final_response_text, streamLen, consumed, firstFinal,
                   firstFinalAt, stdout>>
    /\ UNCHANGED clientVars

\* print(f"<<< Agent Response: {final_response_text}")
PrintResponse ==
    /\ pc = "finished"
    /\ stdout' = ResponseLine(final_response_text)
    /\ pc' = "done"
    /\ UNCHANGED <<final_response_text, streamLen, consumed, firstFinal,
                   firstFinalAt>>
    /\ UNCHANGED clientVars

RunnerInit ==
    /\ pc = "idle"
    /\ final_response_text = PyNone
    /\ streamLen = 0
    /\ consumed = 0
    /\ firstFinal = NoEvent
    /\ firstFinalAt = 0
    /\ stdout = ""

ClientInit ==
    /\ call = [op |-> "none"]
    /\ jql = <<>>
    /\ result = PyNone
    /\ printed = <<>>

Init == RunnerInit /\ ClientInit

RunnerNext ==
    \/ \E n \in 0..MaxEvents : CallAgent(n)
    \/ \E e \in Events : ConsumeEvent(e)
    \/ StreamExhausted
    \/ PrintResponse

\* The turn runner alone (issue_analyzer_agent.py run as a program).
RunnerSpec == Init /\ [][RunnerNext]_vars

\* The asyncio event loop resumes call_agent_async whenever the stream yields
\* an event or ends, and nothing else runs in the program: a step of the
\* runner that stays possible is eventually taken.
FairRunnerSpec == RunnerSpec /\ WF_vars(RunnerNext)

ClientNext ==
    \/ TestConnection
    \/ GetMyIssues
    \/ GetReportedByMe
    \/ GetRecentActivity
    \/ FormatIssues
    \/ GetUserDisplayName
    \/ FormatDate
    \/ NextChoice

\* The Jira client alone (client.py run as a program).
ClientSpec == Init /\ [][ClientNext]_vars

\* Both programs side by side; they share no state.
Next == RunnerNext \/ ClientNext
Spec == Init /\ [][Next]_vars

\* ------------------------------------------------------------------------
\* Properties of the turn runner
\* ------------------------------------------------------------------------
TurnEnded == pc \in {"finished", "done"}

\* C1: for every finite event stream the turn runner terminates, and when no
\* consumed event was marked final the outcome is exactly the fixed default
\* text 'Agent did not produce a final response.' (and that is what is printed).
C1_TerminatesWithDefault ==
    /\ [](TurnEnded /\ firstFinal = NoEvent =>
            /\ consumed = streamLen
            /\ final_response_text =
                   [t |-> "str", s |-> "Agent did not produce a final response."]
            /\ pc = "done" =>
                   stdout = "<<< Agent Response: Agent did not produce a final response.")
    /\ ((pc = "streaming") ~> (pc = "done"))

C1_Witness ==
    /\ pc = "done"
    /\ firstFinal = NoEvent
    /\ streamLen >= 2
    /\ consumed = streamLen

\* The outcome the claims prescribe for a turn whose first final event is e.
HasText(e) ==
    /\ e.content.t = "Content"
    /\ e.content.parts.t = "list"
    /\ Len(e.content.parts.items) >= 1

MarkedEscalation(e) ==
    /\ e.actions.t = "Actions"
    /\ e.actions.escalate = [t |-> "bool", b |-> TRUE]

EscalationOutcome(e) ==
    IF e.error_message \in {[t |-> "None"], [t |-> "str", s |-> ""]}
    THEN [t |-> "str", s |-> "Agent escalated: No specific message."]
    ELSE [t |-> "str", s |-> "Agent escalated: " \o e.error_message.s]

\* C2: the loop stops at the first event marked final: nothing after it is
\* consumed, the outcome is a function of that event alone, and when the
\* event has content the outcome is the text of its first content part.
C2_StopsAtFirstFinal ==
    /\ pc = "streaming" => firstFinal = NoEvent
    /\ (TurnEnded /\ firstFinal # NoEvent) =>
          /\ consumed = firstFinalAt
          /\ final_response_text =
                 IF HasText(firstFinal)
                 THEN firstFinal.content.parts.items[1]
                 ELSE IF MarkedEscalation(firstFinal)
                 THEN EscalationOutcome(firstFinal)
                 ELSE [t |-> "str", s |-> "Agent did not produce a final response."]

C2_Witness ==
    /\ pc = "done"
    /\ firstFinalAt = 2
    /\ streamLen = 3
    /\ consumed = 2
    /\ HasText(firstFinal)
    /\ Len(firstFinal.content.parts.items) = 2
    /\ final_response_text = [t |-> "str", s |-> "B"]

\* C3: when the first final event carries an escalation marker, the outcome
\* is the escalation outcome (engine message, or the 'No specific message.'
\* placeholder), never a normal response, also when the event has content.
C3_EscalationNeverNormal ==
    (TurnEnded /\ firstFinal # NoEvent /\ MarkedEscalation(firstFinal)) =>
        final_response_text = EscalationOutcome(firstFinal)

\* ------------------------------------------------------------------------
\* Properties of the Jira client
\* ------------------------------------------------------------------------
IsQueryCall == call.op \in {"get_my_issues", "get_reported_by_me", "get_recent_activity"}

\* The request failed: no response, an error status, or a body that is not JSON.
RequestFailed(response) ==
    \/ response.kind = "exception"
    \/ response.status >= 400
    \/ response.body.t = "not_json"

\* C4: the query entry points are fail-soft: whatever the transport, the
\* status or the body and its records, the call returns a list (empty when
\* the request failed) and raises nothing.
C4_QueryOpsFailSoft ==
    IsQueryCall =>
        /\ result.t = "return"
        /\ result.v.t = "list"
        /\ RequestFailed(call.response) => result.v.items = <<>>

\* The four outcomes of the connectivity check.
StatusClass(status) ==
    CASE status = 200 -> "success"
      [] status = 401 -> "auth-failure"
      [] status = 404 -> "not-found"
      [] OTHER        -> "generic-failure"

IsConnCheck == call.op = "test_connection" /\ call.response.kind = "http"

\* C5 (as claimed): the result of test_connection tells the four outcomes
\* apart: a status of another outcome never yields the result this one did.
C5_ResultTellsOutcomesApart ==
    IsConnCheck =>
        \A other \in ConnResponses :
            (/\ other.kind = "http"
             /\ StatusClass(other.status) # StatusClass(call.response.status))
            => test_connection(other).outcome # result

\* C5 (amended): test_connection returns True for status 200 and False for
\* 401, 404 and every other status; the three failure kinds differ only in
\* the diagnostic printed after the status line, one per outcome.
C5_DiagnosticTellsOutcomesApart ==
    IsConnCheck =>
        LET status == call.response.status IN
        /\ result = [t |-> "return", v |-> [t |-> "bool", b |-> (status = 200)]]
        /\ Len(printed) = 2
        /\ printed[1] = [msg |-> "status_code", code |-> status]
        /\ printed[2].msg =
               CASE StatusClass(status) = "success" -> "connection_succeeded"
                 [] StatusClass(status) = "auth-failure" -> "auth_error"
                 [] StatusClass(status) = "not-found" -> "bad_url"
                 [] OTHER -> "connection_failed"

C5_Witness ==
    /\ IsConnCheck
    /\ call.response.status = 404
    /\ result = [t |-> "return", v |-> [t |-> "bool", b |-> FALSE]]
    /\ printed[2] = [msg |-> "bad_url"]

\* C6: the normalizer is total: for records with fields missing or without
\* nested structure (null included) it raises nothing and returns one issue
\* per record, in input order.
C6_NormalizerTotal ==
    (call.op = "_format_issues" /\ call.issues.t = "list") =>
        /\ result.t = "return"
        /\ result.v.t = "list"
        /\ Len(result.v.items) = Len(call.issues.items)
        /\ \A i \in 1..Len(call.issues.items) :
               result.v.items[i].key =
                   (IF "key" \in DOMAIN call.issues.items[i].d
                    THEN call.issues.items[i].d["key"] ELSE [t |-> "None"])

\* C7: no user field gives the 'unset' sentinel; a user object that is present
\* gives its display name, else its email address, else the 'unknown'
\* sentinel; in particular {} gives 'unknown'.
C7_UserSentinels ==
    (call.op = "_get_user_display_name" /\ call.user_data.t \in {"None", "dict"}) =>
        LET user == call.user_data IN
        result = [t |-> "return", v |->
            IF user.t = "None" THEN [t |-> "str", s |-> "unset"]
            ELSE IF "displayName" \in DOMAIN user.d THEN user.d["displayName"]
            ELSE IF "emailAddress" \in DOMAIN user.d THEN user.d["emailAddress"]
            ELSE [t |-> "str", s |-> "unknown"]]

\* The display form 'YYYY-MM-DD HH:MM' of the valid timestamps drawn.
DisplayOf(d) ==
    CASE d = <<"2","0","2","4","-","0","3","-","0","5","T","1","4",":","0",
              "7",":","5","9","Z">> ->
        <<"2","0","2","4","-","0","3","-","0","5"," ","1","4",":","0","7">>
      [] d = <<"2","0","2","4","-","0","3","-","0","5","T","1","4",":","0",
              "7",":","5","9",".","1","2","3","Z">> ->
        <<"2","0","2","4","-","0","3","-","0","5"," ","1","4",":","0","7">>
      [] d = <<"2","0","2","4","-","0","2","-","2","9","T","2","3",":","5",
              "9",":","0","0","Z">> ->
        <<"2","0","2","4","-","0","2","-","2","9"," ","2","3",":","5","9">>
      [] d = <<"1","9","9","9","-","1","2","-","3","1","T","0","0",":","0",
              "0","Z">> ->
        <<"1","9","9","9","-","1","2","-","3","1"," ","0","0",":","0","0">>

IsDateCall == call.op = "_format_date"
\* None, "" and the other values Python takes for false
AbsentOrEmpty(d) == d \in {[t |-> "None"], [t |-> "str", s |-> <<>>], [t |-> "int", n |-> 0]}
IsValidZ(d) == d.t = "str" /\ d.s \in ValidZDates
IsUnparseable(d) == (d.t = "int" /\ d.n # 0) \/ (d.t = "str" /\ d.s \in UnparseableDates)

RECURSIVE QuotedList(_)
\* 'v1', 'v2', ...: each value in single quotes, joined by ", ", in order
QuotedList(values) ==
    IF Len(values) = 0 THEN <<>>
    ELSE <<"'">> \o values[1] \o <<"'">> \o
         (IF Len(values) = 1 THEN <<>>
          ELSE <<",", " ">> \o QuotedList(Tail(values)))

NonEmptyList(v) == v.t = "list" /\ Len(v.items) > 0

\* The query get_my_issues is to build for the two filters.
AssigneeQuery(status_filter, project_keys) ==
    <<"a","s","s","i","g","n","e","e"," ","="," ","c","u","r","r","e","n",
      "t","U","s","e","r","(",")">>
    \o (IF NonEmptyList(status_filter)
        THEN <<" ","A","N","D"," ","s","t","a","t","u","s"," ","I","N"," ",
              "(">>
             \o QuotedList(status_filter.items) \o <<")">>
        ELSE <<>>)
    \o (IF NonEmptyList(project_keys)
        THEN <<" ","A","N","D"," ","p","r","o","j","e","c","t"," ","I","N",
              " ","(">>
             \o QuotedList(project_keys.items) \o <<")">>
        ELSE <<>>)
    \o <<" ","O","R","D","E","R"," ","B","Y"," ","c","r","e","a","t","e",
         "d"," ","D","E","S","C">>

\* assignee = currentUser() AND status IN ('To Do', 'In Progress') ORDER BY created DESC
ExampleQuery ==
    <<"a","s","s","i","g","n","e","e"," ","="," ","c","u","r","r","e","n",
      "t","U","s","e","r","(",")"," ","A","N","D"," ","s","t","a","t","u",
      "s"," ","I","N"," ","(","'","T","o"," ","D","o","'",","," ","'","I",
      "n"," ","P","r","o","g","r","e","s","s","'",")"," ","O","R","D","E",
      "R"," ","B","Y"," ","c","r","e","a","t","e","d"," ","D","E","S","C">>

\* C9: get_my_issues builds the assignee predicate, then ' AND status IN (...)'
\* iff the status set is non-empty, then ' AND project IN (...)' iff the
\* project set is non-empty, values single-quoted and joined by ', ' in input
\* order, then ' ORDER BY created DESC'; the example of the spec comes out
\* character for character.
C9_MyIssuesQuery ==
    call.op = "get_my_issues" =>
        /\ jql = AssigneeQuery(call.status_filter, call.project_keys)
        /\ (/\ call.status_filter = [t |-> "list", items |-> <<ToDo, InProgress>>]
            /\ ~NonEmptyList(call.project_keys))
           => jql = ExampleQuery

C9_Witness ==
    /\ call.op = "get_my_issues"
    /\ call.status_filter = [t |-> "list", items |-> <<ToDo, InProgress>>]
    /\ call.project_keys = [t |-> "None"]
    /\ jql = ExampleQuery

RECURSIVE OpenAtEnd(_, _, _)
\* Scanning s from position i, in_literal telling whether a quoted literal is
\* open there: is a literal still open when s ends?  A backslash inside a
\* literal escapes the character after it.
OpenAtEnd(s, i, in_literal) ==
    IF i > Len(s) THEN in_literal
    ELSE IF in_literal /\ s[i] = "\\" THEN OpenAtEnd(s, i + 2, TRUE)
    ELSE IF s[i] = "'" THEN OpenAtEnd(s, i + 1, ~in_literal)
    ELSE OpenAtEnd(s, i + 1, in_literal)

RECURSIVE LiteralCount(_, _, _)
\* The number of quoted literals that s opens from position i on.
LiteralCount(s, i, in_literal) ==
    IF i > Len(s) THEN 0
    ELSE IF in_literal /\ s[i] = "\\" THEN LiteralCount(s, i + 2, TRUE)
    ELSE IF s[i] = "'"
    THEN (IF in_literal THEN 0 ELSE 1) + LiteralCount(s, i + 1, ~in_literal)
    ELSE LiteralCount(s, i + 1, in_literal)

FilterValues(v) == IF v.t = "list" THEN v.items ELSE <<>>
CallValues ==
    FilterValues(call.status_filter)
    \o (IF call.op = "get_my_issues" THEN FilterValues(call.project_keys) ELSE <<>>)

HasQuote(value) == \E i \in 1..Len(value) : value[i] = "'"

\* C10: a filter value that contains the quote character is rejected with an
\* invalid-input error or escaped: the query sent has balanced quoting, one
\* quoted literal per filter value.
C10_QuotesNeverPassThrough ==
    (/\ call.op \in {"get_my_issues", "get_reported_by_me"}
     /\ \E i \in 1..Len(CallValues) : HasQuote(CallValues[i]))
    => \/ result = [t |-> "raise", exc |-> "InvalidInput"]
       \/ /\ ~OpenAtEnd(jql, 1, FALSE)
          /\ LiteralCount(jql, 1, FALSE) = Len(CallValues)

====
